---- MODULE Spec2Model ----
\* Ingredients API (src/main.py): a psycopg2 connection pool shared by the
\* request handlers list / create / update and the health check.
\*
\* Two deployments are modelled:
\*   Spec      the application served with its lifespan handler: startup runs
\*             init_connection_pool() before any request is dispatched
\*             (main.py:19-21), and a failed startup serves nothing;
\*   SpecLazy  the application served without the lifespan protocol, so the
\*             first requests find connection_pool = None and take the lazy
\*             branch of get_db_connection (main.py:80-81).
\* The pool is psycopg2's SimpleConnectionPool(minconn=1, maxconn=10): getconn
\* pops an idle connection, else raises PoolError when maxconn are checked
\* out, else connects; putconn raises PoolError for a connection the pool did
\* not hand out, rolls back an open transaction, and keeps at most minconn
\* idle connections.  The database is PostgreSQL at READ COMMITTED: an UPDATE
\* of a row written by an open transaction waits for that transaction.
EXTENDS Integers, Sequences, FiniteSets, TLC

\* ---------------------------------------------------------------- bounds
NumReq ==
    2
MaxId ==
    2
MaxBg ==
    10

\* ------------------------------------------------------ program constants
MinConn ==
    1
MaxConn ==
    10
ListLimit ==
    10

Reqs ==
    1..NumReq
Ids ==
    1..MaxId
Names ==
    {"Flour", "Salt"}
Prices ==
    {0, 5}
Units ==
    {"g", "kg"}

\* Optional[T]: <<>> is None, <<v>> is the value v.
None ==
    <<>>
Opt(S) ==
    {None} \cup {<<v>> : v \in S}

Ops ==
    {"list", "create", "update", "health"}

\* class Ingredient: the three fields are required.
Ingredient ==
    [id : {0}, name : {<<n>> : n \in Names}, price : {<<p>> : p \in Prices},
     unit : {<<u>> : u \in Units}]

\* class IngredientUpdate, with the path parameter ingredient_id.
IngredientUpdate ==
    [id : Ids, name : Opt(Names), price : Opt(Prices), unit : Opt(Units)]

NoArg ==
    [id |-> 0, name |-> None, price |-> None, unit |-> None]

VARIABLES
    phase,            \* "boot" | "serving" | "failed" (lifespan)
    dbUp,             \* the database accepts new connections
    connection_pool,  \* 0 is None, else the id of the pool the global names
    poolsCreated,     \* pools constructed so far
    used,             \* connections checked out of the current pool
    idle,             \* idle connections kept by the current pool
    bg,               \* further list requests in flight, holding a connection
    tbl,              \* committed rows of table ingredients: id -> Opt(row)
    nextId,           \* next value of the id sequence
    pc, op, arg,      \* per request: position, operation, input
    conn,             \* per request: pool id of its connection, 0 is None
    acq,              \* per request: how get_db_connection ended
    pending,          \* per request: uncommitted write of its transaction
    exc,              \* per request: exception in flight
    sqlFail,          \* per request: a statement or the commit raised
    rolledBack,       \* per request: conn.rollback() was called
    committed,        \* per request: conn.commit() returned
    rel,              \* per request: "none" | "ok" | "fail" (putconn)
    status,           \* per request: HTTP status, 0 while undecided
    body,             \* per request: response records
    health            \* per request: value returned by health_check

vars ==
    <<phase, dbUp, connection_pool, poolsCreated, used, idle, bg, tbl, nextId,
      pc, op, arg, conn, acq, pending, exc, sqlFail, rolledBack, committed,
      rel, status, body, health>>

poolVars ==
    <<connection_pool, poolsCreated, used, idle>>
dataVars ==
    <<tbl, nextId>>
reqVars ==
    <<pc, op, arg, conn, acq, pending, exc, sqlFail, rolledBack, committed,
      rel, status, body, health>>

InitRest ==
    /\ dbUp = TRUE
    /\ connection_pool = 0
    /\ poolsCreated = 0
    /\ used = 0
    /\ idle = 0
    /\ bg = 0
    /\ tbl = [i \in Ids |-> None]
    /\ nextId = 1
    /\ pc = [r \in Reqs |-> "idle"]
    /\ op = [r \in Reqs |-> "list"]
    /\ arg = [r \in Reqs |-> NoArg]
    /\ conn = [r \in Reqs |-> 0]
    /\ acq = [r \in Reqs |-> ""]
    /\ pending = [r \in Reqs |-> None]
    /\ exc = [r \in Reqs |-> ""]
    /\ sqlFail = [r \in Reqs |-> FALSE]
    /\ rolledBack = [r \in Reqs |-> FALSE]
    /\ committed = [r \in Reqs |-> FALSE]
    /\ rel = [r \in Reqs |-> "none"]
    /\ status = [r \in Reqs |-> 0]
    /\ body = [r \in Reqs |-> <<>>]
    /\ health = [r \in Reqs |-> ""]

\* Module import: connection_pool = None, nothing served yet.
Init ==
    /\ phase = "boot"
    /\ InitRest

\* The application served without the lifespan protocol.
InitLazy ==
    /\ phase = "serving"
    /\ InitRest

\* ------------------------------------------------------------------ pool
\* Variants of PoolExhausted: one short of maxconn; never.
PoolExhaustedEarly(u) ==
    u >= MaxConn - 1
PoolNeverExhausted(u) ==
    FALSE

\* SimpleConnectionPool.getconn: "connection pool exhausted".
PoolExhausted(u) ==
    u = MaxConn

\* connection_pool.getconn() with u checked out, i idle, database up or not.
getconn(u, i, up) ==
    IF i > 0
    THEN [why |-> "ok", used |-> u + 1, idle |-> i - 1]
    ELSE IF PoolExhausted(u)
    THEN [why |-> "exhausted", used |-> u, idle |-> i]
    ELSE IF up
    THEN [why |-> "ok", used |-> u + 1, idle |-> i]
    ELSE [why |-> "connect", used |-> u, idle |-> i]

\* Variant of putconn: the connection stays checked out.
putconn_kept(u, i) ==
    [used |-> u, idle |-> i]

\* connection_pool.putconn(conn) for a connection of this pool.
putconn(u, i) ==
    [used |-> u - 1, idle |-> IF i < MinConn THEN i + 1 ELSE i]

\* release_connection: `if conn:`.
should_release(c) ==
    c # 0

\* init_connection_pool() when SimpleConnectionPool(...) succeeds: the global
\* names a new pool holding minconn idle connections.
init_connection_pool ==
    /\ connection_pool' = poolsCreated + 1
    /\ poolsCreated' = poolsCreated + 1
    /\ used' = 0
    /\ idle' = MinConn

\* lifespan startup: init_connection_pool(); an exception aborts startup.
LifespanStartup ==
    /\ phase = "boot"
    /\ IF dbUp
       THEN /\ init_connection_pool
            /\ phase' = "serving"
       ELSE /\ phase' = "failed"
            /\ UNCHANGED poolVars
    /\ UNCHANGED <<dbUp, bg, dataVars, reqVars>>

\* Environment: the database stops or resumes accepting connections.
DbOutage ==
    /\ dbUp
    /\ dbUp' = FALSE
    /\ UNCHANGED <<phase, poolVars, bg, dataVars, reqVars>>

DbRecover ==
    /\ ~dbUp
    /\ dbUp' = TRUE
    /\ UNCHANGED <<phase, poolVars, bg, dataVars, reqVars>>

\* Requests being handled: the numbered ones plus the further list requests.
InFlight ==
    Cardinality({r \in Reqs : pc[r] \notin {"idle", "done"}}) + bg

\* A further GET /ingredients obtains its connection (_fetch_ingredients_sync
\* up to the SELECT).
BgAcquire ==
    /\ phase = "serving"
    /\ connection_pool # 0
    /\ bg < MaxBg
    /\ LET g == getconn(used, idle, dbUp)
       IN  /\ g.why = "ok"
           /\ used' = g.used
           /\ idle' = g.idle
    /\ bg' = bg + 1
    /\ UNCHANGED <<phase, dbUp, connection_pool, poolsCreated, dataVars, reqVars>>

\* ... and releases it in its finally block.
BgRelease ==
    /\ bg > 0
    /\ LET p == putconn(used, idle)
       IN  /\ used' = p.used
           /\ idle' = p.idle
    /\ bg' = bg - 1
    /\ UNCHANGED <<phase, dbUp, connection_pool, poolsCreated, dataVars, reqVars>>

\* --------------------------------------------------------------- helpers
\* `ingredient_update.name is not None`
name_supplied(a) ==
    a.name # None

\* Variant of price_supplied: truthiness, `if ingredient_update.price:`.
price_truthy(a) ==
    a.price # None /\ a.price[1] # 0

\* `ingredient_update.price is not None`
price_supplied(a) ==
    a.price # None

\* `ingredient_update.unit is not None`
unit_supplied(a) ==
    a.unit # None

\* `if not update_fields`.
NoFields(a) ==
    ~name_supplied(a) /\ ~price_supplied(a) /\ ~unit_supplied(a)

\* UPDATE ingredients SET <supplied fields> WHERE id = %s, applied to a row.
apply_update(row, a) ==
    [name  |-> IF name_supplied(a) THEN a.name[1] ELSE row.name,
     price |-> IF price_supplied(a) THEN a.price[1] ELSE row.price,
     unit  |-> IF unit_supplied(a) THEN a.unit[1] ELSE row.unit]

\* Variant of insert_row: name and unit in each other's place.
insert_row_swapped(a) ==
    [name |-> a.unit[1], price |-> a.price[1], unit |-> a.name[1]]

\* The row INSERT ... VALUES (%s, %s, %s) stores for an Ingredient.
insert_row(a) ==
    [name |-> a.name[1], price |-> a.price[1], unit |-> a.unit[1]]

\* ingredient.dict()
ingredient_dict(a) ==
    [name |-> a.name[1], price |-> a.price[1], unit |-> a.unit[1]]

\* {"id": ..., "name": ..., "price": ..., "unit": ...}
record(i, row) ==
    [id |-> i, name |-> row.name, price |-> row.price, unit |-> row.unit]

\* SELECT * FROM ingredients LIMIT 10, each row as {"name", "price", "unit"}.
RECURSIVE fetch_rows(_, _, _)
fetch_rows(t, i, n) ==
    IF i > MaxId \/ n = 0
    THEN <<>>
    ELSE IF t[i] = None
    THEN fetch_rows(t, i + 1, n)
    ELSE <<t[i][1]>> \o fetch_rows(t, i + 1, n - 1)

\* Variant of update_sync_exc: no `except HTTPException: raise`.
update_sync_exc_all500(e) ==
    "HTTP500"

\* The except clauses of _update_ingredient_sync: an HTTPException is
\* re-raised, anything else becomes HTTPException(500).
update_sync_exc(e) ==
    IF e \in {"HTTP400", "HTTP404", "HTTP500"} THEN e ELSE "HTTP500"

\* Variant of route_status: `except Exception` ahead of `except ConnectionError`.
route_status_generic_first(o, e) ==
    IF e = ""
    THEN 200
    ELSE IF o = "update" /\ e = "HTTP400"
    THEN 400
    ELSE IF o = "update" /\ e = "HTTP404"
    THEN 404
    ELSE 500

\* The except clauses of the three routes.
route_status(o, e) ==
    IF e = ""
    THEN 200
    ELSE IF o = "update" /\ e = "HTTP400"
    THEN 400
    ELSE IF o = "update" /\ e = "HTTP404"
    THEN 404
    ELSE IF o = "update" /\ e = "HTTP500"
    THEN 500
    ELSE IF e = "ConnectionError"
    THEN 503
    ELSE 500

\* Another open transaction holds the row lock of row i.
Locked(r, i) ==
    \E q \in Reqs \ {r} : pending[q] # None /\ pending[q][1].id = i

\* INSERTs not issued yet by requests already accepted.
CreatesAhead ==
    Cardinality({r \in Reqs : op[r] = "create" /\ pc[r] \in {"check", "init", "getconn", "exec"}})

\* health_check is a coroutine without an await: it runs on the event loop
\* from start to end, so no second health check runs beside it; the _sync
\* helpers run on worker threads (run_in_threadpool).
OnEventLoop ==
    \E q \in Reqs : op[q] = "health" /\ pc[q] \notin {"idle", "done"}

\* ------------------------------------------------------------- requests
\* A request is dispatched: GET /health, GET /ingredients, POST /ingredients
\* with an Ingredient of Cs, PUT /ingredients/{id} with an
\* IngredientUpdate of Us.
Start(r, Allowed, Cs, Us) ==
    /\ phase = "serving"
    /\ pc[r] = "idle"
    /\ \E o \in Allowed :
         /\ o = "health" => ~OnEventLoop
         /\ op' = [op EXCEPT ![r] = o]
         /\ IF o = "create"
            THEN /\ nextId + CreatesAhead <= MaxId
                 /\ \E a \in Cs : arg' = [arg EXCEPT ![r] = a]
            ELSE IF o = "update"
            THEN \E a \in Us : arg' = [arg EXCEPT ![r] = a]
            ELSE arg' = [arg EXCEPT ![r] = NoArg]
    /\ pc' = [pc EXCEPT ![r] = "check"]
    /\ UNCHANGED <<phase, dbUp, poolVars, bg, dataVars, conn, acq, pending, exc,
                   sqlFail, rolledBack, committed, rel, status, body, health>>

\* get_db_connection returned c (0 is None) to its caller: health_check
\* falls through without a return when c is None; the _sync helpers raise
\* ConnectionError, which the routes answer with 503.
AfterGet(r, c, why) ==
    /\ conn' = [conn EXCEPT ![r] = c]
    /\ acq' = [acq EXCEPT ![r] = why]
    /\ IF c # 0
       THEN /\ pc' = [pc EXCEPT ![r] = IF op[r] = "health" THEN "release" ELSE "exec"]
            /\ UNCHANGED <<exc, status, health>>
       ELSE /\ pc' = [pc EXCEPT ![r] = "done"]
            /\ IF op[r] = "health"
               THEN /\ health' = [health EXCEPT ![r] = "None"]
                    /\ UNCHANGED <<exc, status>>
               ELSE /\ exc' = [exc EXCEPT ![r] = "ConnectionError"]
                    /\ status' = [status EXCEPT ![r] = route_status(op[r], "ConnectionError")]
                    /\ UNCHANGED health

\* get_db_connection: `if connection_pool is None`.
GetCheck(r) ==
    /\ pc[r] = "check"
    /\ pc' = [pc EXCEPT ![r] = IF connection_pool = 0 THEN "init" ELSE "getconn"]
    /\ UNCHANGED <<phase, dbUp, poolVars, bg, dataVars, op, arg, conn, acq, pending,
                   exc, sqlFail, rolledBack, committed, rel, status, body, health>>

\* get_db_connection: init_connection_pool() on the lazy branch; its
\* exception is caught and None returned.
LazyInit(r) ==
    /\ pc[r] = "init"
    /\ IF dbUp
       THEN /\ init_connection_pool
            /\ pc' = [pc EXCEPT ![r] = "getconn"]
            /\ UNCHANGED <<conn, acq, exc, status, health>>
       ELSE /\ AfterGet(r, 0, "connect")
            /\ UNCHANGED poolVars
    /\ UNCHANGED <<phase, dbUp, bg, dataVars, op, arg, pending, sqlFail, rolledBack,
                   committed, rel, body>>

\* get_db_connection: connection_pool.getconn(); an exception gives None.
GetConn(r) ==
    /\ pc[r] = "getconn"
    /\ LET g == getconn(used, idle, dbUp)
       IN  /\ used' = g.used
           /\ idle' = g.idle
           /\ AfterGet(r, IF g.why = "ok" THEN connection_pool ELSE 0, g.why)
    /\ UNCHANGED <<phase, dbUp, connection_pool, poolsCreated, bg, dataVars, op, arg,
                   pending, sqlFail, rolledBack, committed, rel, body>>

\* _fetch_ingredients_sync, the try block: SELECT and the row mapping; an
\* exception is re-raised.
ListExec(r) ==
    /\ pc[r] = "exec"
    /\ op[r] = "list"
    /\ \E ok \in BOOLEAN :
         IF ok
         THEN /\ body' = [body EXCEPT ![r] = fetch_rows(tbl, 1, ListLimit)]
              /\ UNCHANGED <<exc, sqlFail>>
         ELSE /\ exc' = [exc EXCEPT ![r] = "DBError"]
              /\ sqlFail' = [sqlFail EXCEPT ![r] = TRUE]
              /\ UNCHANGED body
    /\ pc' = [pc EXCEPT ![r] = "release"]
    /\ UNCHANGED <<phase, dbUp, poolVars, bg, dataVars, op, arg, conn, acq, pending,
                   rolledBack, committed, rel, status, health>>

\* _create_ingredient_sync: INSERT ... RETURNING id and fetchone()[0]; an
\* exception of either rolls back and is re-raised.  A failure after the
\* INSERT ran has used a value of the id sequence.
CreateExec(r) ==
    /\ pc[r] = "exec"
    /\ op[r] = "create"
    /\ \E outcome \in {"ok", "execute", "fetchone"} :
         IF outcome = "ok"
         THEN /\ pending' = [pending EXCEPT ![r] = <<[id |-> nextId, row |-> insert_row(arg[r])]>>]
              /\ nextId' = nextId + 1
              /\ pc' = [pc EXCEPT ![r] = "commit"]
              /\ UNCHANGED <<exc, sqlFail, rolledBack>>
         ELSE /\ exc' = [exc EXCEPT ![r] = "DBError"]
              /\ sqlFail' = [sqlFail EXCEPT ![r] = TRUE]
              /\ rolledBack' = [rolledBack EXCEPT ![r] = TRUE]
              /\ pc' = [pc EXCEPT ![r] = "release"]
              /\ nextId' = IF outcome = "fetchone" THEN nextId + 1 ELSE nextId
              /\ UNCHANGED pending
    /\ UNCHANGED <<phase, dbUp, poolVars, bg, tbl, op, arg, conn, acq, committed, rel,
                   status, body, health>>

\* _create_ingredient_sync: conn.commit() and the returned record; an
\* exception rolls back and is re-raised.
CreateCommit(r) ==
    /\ pc[r] = "commit"
    /\ op[r] = "create"
    /\ \E ok \in BOOLEAN :
         IF ok
         THEN /\ tbl' = [tbl EXCEPT ![pending[r][1].id] = <<pending[r][1].row>>]
              /\ committed' = [committed EXCEPT ![r] = TRUE]
              /\ body' = [body EXCEPT ![r] = <<record(pending[r][1].id, ingredient_dict(arg[r]))>>]
              /\ UNCHANGED <<exc, sqlFail, rolledBack>>
         ELSE /\ exc' = [exc EXCEPT ![r] = "DBError"]
              /\ sqlFail' = [sqlFail EXCEPT ![r] = TRUE]
              /\ rolledBack' = [rolledBack EXCEPT ![r] = TRUE]
              /\ UNCHANGED <<tbl, committed, body>>
    /\ pending' = [pending EXCEPT ![r] = None]
    /\ pc' = [pc EXCEPT ![r] = "release"]
    /\ UNCHANGED <<phase, dbUp, poolVars, bg, nextId, op, arg, conn, acq, rel, status,
                   health>>

\* _update_ingredient_sync: the field list, the 400 for an empty one, the
\* UPDATE ... RETURNING and the 404 for no row.  The UPDATE waits while
\* another transaction holds the row.
UpdateExec(r) ==
    /\ pc[r] = "exec"
    /\ op[r] = "update"
    /\ IF NoFields(arg[r])
       THEN /\ exc' = [exc EXCEPT ![r] = update_sync_exc("HTTP400")]
            /\ pc' = [pc EXCEPT ![r] = "release"]
            /\ UNCHANGED <<pending, sqlFail, rolledBack>>
       ELSE \E ok \in BOOLEAN :
              IF ~ok
              THEN /\ exc' = [exc EXCEPT ![r] = update_sync_exc("DBError")]
                   /\ sqlFail' = [sqlFail EXCEPT ![r] = TRUE]
                   /\ rolledBack' = [rolledBack EXCEPT ![r] = TRUE]
                   /\ pc' = [pc EXCEPT ![r] = "release"]
                   /\ UNCHANGED pending
              ELSE IF tbl[arg[r].id] = None
              THEN /\ exc' = [exc EXCEPT ![r] = update_sync_exc("HTTP404")]
                   /\ pc' = [pc EXCEPT ![r] = "release"]
                   /\ UNCHANGED <<pending, sqlFail, rolledBack>>
              ELSE /\ ~Locked(r, arg[r].id)
                   /\ pending' = [pending EXCEPT ![r] =
                        <<[id |-> arg[r].id, row |-> apply_update(tbl[arg[r].id][1], arg[r])]>>]
                   /\ pc' = [pc EXCEPT ![r] = "commit"]
                   /\ UNCHANGED <<exc, sqlFail, rolledBack>>
    /\ UNCHANGED <<phase, dbUp, poolVars, bg, dataVars, op, arg, conn, acq, committed,
                   rel, status, body, health>>

\* _update_ingredient_sync: conn.commit() and the returned record; an
\* exception rolls back and becomes HTTPException(500).
UpdateCommit(r) ==
    /\ pc[r] = "commit"
    /\ op[r] = "update"
    /\ \E ok \in BOOLEAN :
         IF ok
         THEN /\ tbl' = [tbl EXCEPT ![pending[r][1].id] = <<pending[r][1].row>>]
              /\ committed' = [committed EXCEPT ![r] = TRUE]
              /\ body' = [body EXCEPT ![r] = <<record(pending[r][1].id, pending[r][1].row)>>]
              /\ UNCHANGED <<exc, sqlFail, rolledBack>>
         ELSE /\ exc' = [exc EXCEPT ![r] = update_sync_exc("DBError")]
              /\ sqlFail' = [sqlFail EXCEPT ![r] = TRUE]
              /\ rolledBack' = [rolledBack EXCEPT ![r] = TRUE]
              /\ UNCHANGED <<tbl, committed, body>>
    /\ pending' = [pending EXCEPT ![r] = None]
    /\ pc' = [pc EXCEPT ![r] = "release"]
    /\ UNCHANGED <<phase, dbUp, poolVars, bg, nextId, op, arg, conn, acq, rel, status,
                   health>>

\* release_connection(conn) in the finally block (in health_check: before
\* `return HealthCheck("healthy", ...)`), then the route's answer.  putconn
\* raises PoolError for a connection of another pool; that exception
\* replaces the result: health_check returns unhealthy, the routes answer 500.
Release(r) ==
    /\ pc[r] = "release"
    /\ IF should_release(conn[r]) /\ conn[r] = connection_pool
       THEN /\ used' = putconn(used, idle).used
            /\ idle' = putconn(used, idle).idle
            /\ rel' = [rel EXCEPT ![r] = "ok"]
            /\ health' = [health EXCEPT ![r] = IF op[r] = "health" THEN "healthy" ELSE ""]
            /\ status' = [status EXCEPT ![r] =
                 IF op[r] = "health" THEN 0 ELSE route_status(op[r], exc[r])]
            /\ UNCHANGED <<exc, body>>
       ELSE IF should_release(conn[r])
       THEN /\ rel' = [rel EXCEPT ![r] = "fail"]
            /\ exc' = [exc EXCEPT ![r] = "PoolError"]
            /\ health' = [health EXCEPT ![r] = IF op[r] = "health" THEN "unhealthy" ELSE ""]
            /\ status' = [status EXCEPT ![r] =
                 IF op[r] = "health" THEN 0 ELSE route_status(op[r], "PoolError")]
            /\ body' = [body EXCEPT ![r] = <<>>]
            /\ UNCHANGED <<used, idle>>
       ELSE /\ health' = [health EXCEPT ![r] = IF op[r] = "health" THEN "healthy" ELSE ""]
            /\ status' = [status EXCEPT ![r] =
                 IF op[r] = "health" THEN 0 ELSE route_status(op[r], exc[r])]
            /\ UNCHANGED <<used, idle, rel, exc, body>>
    /\ pc' = [pc EXCEPT ![r] = "done"]
    /\ UNCHANGED <<phase, dbUp, connection_pool, poolsCreated, bg, dataVars, op, arg,
                   conn, acq, pending, sqlFail, rolledBack, committed>>

\* The response has been sent; the slot takes the next request.
Finish(r) ==
    /\ pc[r] = "done"
    /\ pc' = [pc EXCEPT ![r] = "idle"]
    /\ op' = [op EXCEPT ![r] = "list"]
    /\ arg' = [arg EXCEPT ![r] = NoArg]
    /\ conn' = [conn EXCEPT ![r] = 0]
    /\ acq' = [acq EXCEPT ![r] = ""]
    /\ exc' = [exc EXCEPT ![r] = ""]
    /\ sqlFail' = [sqlFail EXCEPT ![r] = FALSE]
    /\ rolledBack' = [rolledBack EXCEPT ![r] = FALSE]
    /\ committed' = [committed EXCEPT ![r] = FALSE]
    /\ rel' = [rel EXCEPT ![r] = "none"]
    /\ status' = [status EXCEPT ![r] = 0]
    /\ body' = [body EXCEPT ![r] = <<>>]
    /\ health' = [health EXCEPT ![r] = ""]
    /\ UNCHANGED <<phase, dbUp, poolVars, bg, dataVars, pending>>

\* ------------------------------------------------------- specifications
\* Request bodies drawn by SpecData: two ingredients, and every subset of the
\* three optional fields for each id.
Creates ==
    {[id |-> 0, name |-> <<"Flour">>, price |-> <<5>>, unit |-> <<"kg">>],
     [id |-> 0, name |-> <<"Salt">>, price |-> <<0>>, unit |-> <<"g">>]}
Updates ==
    [id : Ids, name : {None, <<"Salt">>}, price : {None, <<0>>}, unit : {None, <<"g">>}]

\* Request bodies drawn by Spec and SpecLazy.
FewCreates ==
    {[id |-> 0, name |-> <<"Flour">>, price |-> <<5>>, unit |-> <<"kg">>]}
FewUpdates ==
    {[id |-> 1, name |-> None, price |-> None, unit |-> None],
     [id |-> 1, name |-> None, price |-> <<0>>, unit |-> None]}

\* Served with lifespan startup, with database outages and with up to MaxBg
\* further list requests in flight.
Next ==
    \/ LifespanStartup
    \/ DbOutage
    \/ DbRecover
    \/ BgAcquire
    \/ BgRelease
    \/ \E r \in Reqs :
         \/ Start(r, Ops, FewCreates, FewUpdates)
         \/ GetCheck(r)
         \/ GetConn(r)
         \/ ListExec(r)
         \/ CreateExec(r)
         \/ CreateCommit(r)
         \/ UpdateExec(r)
         \/ UpdateCommit(r)
         \/ Release(r)
         \/ Finish(r)

Spec ==
    Init /\ [][Next]_vars

\* Served with lifespan startup: concurrent POST and PUT requests over the
\* request bodies Creates and Updates.
NextData ==
    \/ LifespanStartup
    \/ \E r \in Reqs :
         \/ Start(r, {"create", "update"}, Creates, Updates)
         \/ GetCheck(r)
         \/ GetConn(r)
         \/ CreateExec(r)
         \/ CreateCommit(r)
         \/ UpdateExec(r)
         \/ UpdateCommit(r)
         \/ Release(r)
         \/ Finish(r)

SpecData ==
    Init /\ [][NextData]_vars

\* Served without lifespan startup: the pool is created on first use.
NextLazy ==
    \/ DbOutage
    \/ DbRecover
    \/ \E r \in Reqs :
         \/ Start(r, Ops, FewCreates, FewUpdates)
         \/ GetCheck(r)
         \/ LazyInit(r)
         \/ GetConn(r)
         \/ ListExec(r)
         \/ CreateExec(r)
         \/ CreateCommit(r)
         \/ UpdateExec(r)
         \/ UpdateCommit(r)
         \/ Release(r)
         \/ Finish(r)

SpecLazy ==
    InitLazy /\ [][NextLazy]_vars

\* =============================================================== claims
Handlers ==
    {"list", "create", "update"}

\* r takes a step.
Steps(r) ==
    pc'[r] # pc[r]

\* C1 (as stated): a PUT whose body supplies none of name, price, unit is
\* always answered 400, whatever the state of the pool and the database.
C1_EmptyUpdateAlways400 ==
    \A r \in Reqs :
      (pc[r] = "done" /\ op[r] = "update" /\ NoFields(arg[r])) => status[r] = 400

\* C2 (as stated): health_check always returns a status value: healthy
\* exactly when a connection was acquired and released without error,
\* unhealthy whenever the acquisition failed.
C2_HealthAlwaysReports ==
    \A r \in Reqs :
      (pc[r] = "done" /\ op[r] = "health") =>
        /\ health[r] \in {"healthy", "unhealthy"}
        /\ (health[r] = "healthy") <=> (acq[r] = "ok" /\ rel[r] = "ok")
        /\ acq[r] # "ok" => health[r] = "unhealthy"

\* C3: a PUT that supplies a field, holds a connection and whose UPDATE finds
\* no row with the id ends with HTTPException(404): that step and the release
\* after it leave the table as it was, nothing is committed or left pending,
\* and the answer is 404.
C3_NotFoundNoMutation ==
    /\ [][\A r \in Reqs :
            (/\ op[r] = "update" /\ pc[r] = "exec" /\ ~NoFields(arg[r])
             /\ tbl[arg[r].id] = None /\ Steps(r) /\ ~sqlFail'[r])
            => (/\ exc'[r] = "HTTP404" /\ pc'[r] = "release"
                /\ tbl' = tbl /\ pending'[r] = None /\ ~committed'[r])]_vars
    /\ [][\A r \in Reqs :
            (op[r] = "update" /\ exc[r] = "HTTP404" /\ Steps(r) /\ pc[r] = "release")
            => (tbl' = tbl /\ status'[r] = 404 /\ ~committed'[r] /\ pc'[r] = "done")]_vars

C3_Witness ==
    \E r \in Reqs :
      /\ pc[r] = "done" /\ op[r] = "update" /\ status[r] = 404
      /\ tbl[arg[r].id] = None
      /\ \E i \in Ids : tbl[i] # None

\* C4: list, create and update answer 503 when no connection was acquired and
\* 500 when a statement or the commit failed on an acquired connection; 503
\* is given for nothing else, and neither failure is answered 200.
C4_StatusByFailure ==
    \A r \in Reqs :
      (pc[r] = "done" /\ op[r] \in Handlers) =>
        /\ acq[r] # "ok" => status[r] = 503
        /\ (acq[r] = "ok" /\ sqlFail[r]) => status[r] = 500
        /\ status[r] = 503 => acq[r] # "ok"

C4_Witness ==
    \E r, q \in Reqs :
      /\ pc[r] = "done" /\ op[r] \in Handlers /\ acq[r] = "connect" /\ status[r] = 503
      /\ pc[q] = "done" /\ op[q] \in Handlers /\ sqlFail[q] /\ status[q] = 500

\* C5: create is all-or-nothing.  Its commit adds exactly one row, under a
\* fresh id, holding the three input fields, and the answer carries that id
\* and those fields; a failed INSERT or commit calls rollback in the same
\* step, leaves nothing pending, and no later step of the request changes
\* the table; an answer of 200 means the commit returned.
C5_CreateAllOrNothing ==
    /\ [](\A r \in Reqs :
            (pc[r] = "done" /\ op[r] = "create") =>
              /\ status[r] = 200 => (committed[r] /\ ~sqlFail[r] /\ Len(body[r]) = 1)
              /\ sqlFail[r] => (rolledBack[r] /\ ~committed[r] /\ status[r] = 500))
    /\ [][\A r \in Reqs :
            (op[r] = "create" /\ Steps(r)) =>
              /\ (~committed[r] /\ committed'[r]) =>
                   \E i \in Ids :
                     /\ tbl[i] = None
                     /\ tbl' = [tbl EXCEPT ![i] =
                          <<[name |-> arg[r].name[1], price |-> arg[r].price[1],
                             unit |-> arg[r].unit[1]]>>]
                     /\ body'[r] = <<[id |-> i, name |-> arg[r].name[1],
                                      price |-> arg[r].price[1], unit |-> arg[r].unit[1]]>>
              /\ (~sqlFail[r] /\ sqlFail'[r]) =>
                   (rolledBack'[r] /\ tbl' = tbl /\ pending'[r] = None)
              /\ (sqlFail[r] \/ committed[r] \/ ~committed'[r]) => tbl' = tbl]_vars

C5_Witness ==
    \E r, q \in Reqs :
      /\ pc[r] = "done" /\ op[r] = "create" /\ status[r] = 200
      /\ tbl[body[r][1].id] # None
      /\ pc[q] = "done" /\ op[q] = "create" /\ sqlFail[q] /\ rolledBack[q]

\* C6: the commit of an update changes, in the row with the given id, exactly
\* the fields the request supplied, leaves every other row as it was, and
\* the answer is that row as stored, with its id; an answer of 200 means
\* the commit returned.
C6_UpdateOnlySupplied ==
    /\ [](\A r \in Reqs :
            (pc[r] = "done" /\ op[r] = "update" /\ status[r] = 200) =>
              (committed[r] /\ Len(body[r]) = 1 /\ body[r][1].id = arg[r].id))
    /\ [][\A r \in Reqs :
            (op[r] = "update" /\ ~committed[r] /\ committed'[r]) =>
              LET i == arg[r].id
              IN  /\ tbl[i] # None /\ tbl'[i] # None
                  /\ tbl'[i][1].name =
                       (IF arg[r].name # None THEN arg[r].name[1] ELSE tbl[i][1].name)
                  /\ tbl'[i][1].price =
                       (IF arg[r].price # None THEN arg[r].price[1] ELSE tbl[i][1].price)
                  /\ tbl'[i][1].unit =
                       (IF arg[r].unit # None THEN arg[r].unit[1] ELSE tbl[i][1].unit)
                  /\ \A j \in Ids \ {i} : tbl'[j] = tbl[j]
                  /\ body'[r] = <<[id |-> i, name |-> tbl'[i][1].name,
                                   price |-> tbl'[i][1].price, unit |-> tbl'[i][1].unit]>>]_vars

C6_Witness ==
    \E r \in Reqs :
      /\ pc[r] = "done" /\ op[r] = "update" /\ status[r] = 200
      /\ arg[r].price = <<0>> /\ arg[r].name = None /\ arg[r].unit = None
      /\ body[r][1].name = "Flour" /\ body[r][1].unit = "kg"
      /\ \E j \in Ids \ {arg[r].id} : tbl[j] # None

\* C7 (as stated): a request that finds every connection of the pool checked
\* out waits; none is answered with an error because the pool is exhausted.
C7_ExhaustedNeverFails ==
    \A r \in Reqs : acq[r] # "exhausted"

\* C7 (amended): a request that asks for a connection while MaxConn are
\* checked out and none is idle does not wait: the step is enabled, it
\* leaves the request without a connection and finished, and list, create
\* and update answer 503.
C7_ExhaustedFailsAtOnce ==
    /\ [](\A r \in Reqs : pc[r] = "getconn" => ENABLED GetConn(r))
    /\ [][\A r \in Reqs :
            (pc[r] = "getconn" /\ idle = 0 /\ used = MaxConn /\ Steps(r)) =>
              /\ pc'[r] = "done" /\ conn'[r] = 0 /\ used' = used
              /\ op[r] \in Handlers => status'[r] = 503]_vars

C7_Witness ==
    \E r \in Reqs :
      /\ pc[r] = "done" /\ op[r] \in Handlers /\ acq[r] = "exhausted" /\ status[r] = 503
      /\ InFlight >= MaxConn

\* C8: with the pool created and the database reachable, a request that asks
\* for a connection while at most MaxConn requests are in flight gets one,
\* and never more than MaxConn connections are checked out.
C8_NoExhaustionWithinMax ==
    /\ [](used <= MaxConn)
    /\ [][\A r \in Reqs :
            (/\ pc[r] = "getconn" /\ Steps(r) /\ connection_pool # 0 /\ dbUp
             /\ InFlight <= MaxConn)
            => (conn'[r] # 0 /\ acq'[r] = "ok")]_vars

C8_Witness ==
    /\ InFlight = MaxConn
    /\ used = MaxConn
    /\ \A r \in Reqs : pc[r] \in {"exec", "release"} /\ acq[r] = "ok"

\* Requests that hold a connection.
Holders ==
    {r \in Reqs : pc[r] \in {"exec", "commit", "release"}}

\* C9: every request that acquired a connection has returned it once it is
\* finished, on every exit path; the connections checked out are exactly
\* those of the requests still at work, so with no request in flight none is
\* checked out.
C9_ReleasedOnEveryPath ==
    /\ \A r \in Reqs : (pc[r] = "done" /\ acq[r] = "ok") => rel[r] = "ok"
    /\ used = Cardinality(Holders) + bg
    /\ InFlight = 0 => used = 0

C9_Witness ==
    /\ InFlight = 0
    /\ used = 0
    /\ \E r, q \in Reqs :
         /\ pc[r] = "done" /\ op[r] = "update" /\ exc[r] = "HTTP404" /\ rel[r] = "ok"
         /\ pc[q] = "done" /\ sqlFail[q] /\ rolledBack[q] /\ rel[q] = "ok"

\* C10 (as stated): at most one pool is ever created, and every connection
\* is released to the pool it was acquired from.
C10_SinglePool ==
    /\ poolsCreated <= 1
    /\ \A r \in Reqs : rel[r] # "fail"

====
